---- MODULE Spec2Model ----
(***************************************************************************)
(* Model of the code-extraction layer of AIunittest                        *)
(* (backend/app/services): the brace-counting primitive of BaseParser, the *)
(* ParserFactory dispatch table with test_generator.parse_code, and the    *)
(* five language parsers.                                                  *)
(*                                                                         *)
(* Texts are sequences of strings (characters for brace counting, tokens   *)
(* for the parsers); offsets and line numbers are 0-based as in the Python *)
(* code, so code[i] of the source is code[i + 1] here.                     *)
(***************************************************************************)
EXTENDS Integers, Sequences, FiniteSets, TLC

VARIABLES
    \* ---- BaseParser.find_closing_brace, one call, statement by statement
    fcb_pc,          \* "idle" | "loop" | "done"
    fcb_code,        \* argument code
    fcb_start,       \* argument start_pos
    fcb_i,           \* loop variable i
    fcb_count,       \* brace_count
    fcb_found,       \* found_opening_brace
    fcb_ret,         \* returned offset (-1 before the return)
    fcb_steps,       \* characters examined so far
    \* ---- ParserFactory and its callers
    parsers,         \* ParserFactory._parsers: the dict as its (key, value) items in order
    call,            \* the last call made and what came of it
    \* ---- BaseParser.extract_function_body, one call
    efb,             \* the call: its arguments, the end line found and the returned text
    \* ---- GoParser.parse_code, calls in progress on the one GoParser instance
    go_frames,       \* thread -> the frame of its call: the local variables
    go_self,         \* the attributes of the GoParser instance of the table
    \* ---- SimpleTaskQueue, one queue and the execute_task calls on it
    q_calls,         \* call -> where the coroutine of that execute_task call stands
    q_running,       \* self.running_tasks: the (task_id, status) items in order
    q_sem            \* self.semaphore: the free slots

fcb_vars == <<fcb_pc, fcb_code, fcb_start, fcb_i, fcb_count, fcb_found, fcb_ret, fcb_steps>>

pf_vars == <<parsers, call>>

efb_vars == <<efb>>

go_vars == <<go_frames, go_self>>

q_vars == <<q_calls, q_running, q_sem>>

\* the variables the brace scan and the factory calls leave alone
ext_vars == <<efb_vars, go_vars, q_vars>>

vars == <<fcb_vars, pf_vars, ext_vars>>

----------------------------------------------------------------------------
(* Bounds *)

\* longest text handed to find_closing_brace
MaxLen == 4

\* most top-level declarations in a source text
MaxDecls == 2

\* most members in a class body
MaxMembers == 1

\* longest list a caller makes of the one get_supported_languages returned
MaxListLen == 6

\* longest text handed to extract_function_body
MaxSpanLen == 5

\* execute_task calls made on the queue
NumCalls == 4

----------------------------------------------------------------------------
(* Generic helpers *)

RECURSIVE SeqsUpTo(_, _)
\* all sequences over S of length 0..n
SeqsUpTo(S, n) ==
    IF n = 0 THEN {<<>>}
    ELSE LET shorter == SeqsUpTo(S, n - 1)
         IN  shorter \cup {Append(s, x) : s \in {t \in shorter : Len(t) = n - 1}, x \in S}

\* Python slice seq[a:b] for 0 <= a, with b clipped to the length
Slice(s, a, b) ==
    LET hi == IF b > Len(s) THEN Len(s) ELSE b
    IN  IF a >= hi THEN <<>> ELSE SubSeq(s, a + 1, hi)

----------------------------------------------------------------------------
(* BaseParser.find_closing_brace (base_parser.py 24-48)                    *)

\* characters that matter to brace counting; "x" is any other character
BraceChars == {"{", "}", "x"}

BraceTexts == SeqsUpTo(BraceChars, MaxLen)

\* lines 39-43: the effect of one character on (brace_count, found_opening_brace)
BraceCountAfter(ch, count) ==
    IF ch = "{" THEN count + 1
    ELSE IF ch = "}" THEN count - 1
    ELSE count

FoundAfter(ch, found) == found \/ ch = "{"

\* line 46: the offset returned when the counter is back at zero at index i
ReturnOffset(i) == i + 1

\* a scan that answers -1 when it finds no closing brace
NotFoundOffset_MinusOne(code) == -1

\* line 48: the offset returned when the loop ends without a return
NotFoundOffset(code) == Len(code)

RECURSIVE FcbScan(_, _, _, _)
\* lines 38-48 as a function: the loop from index i with the given counter state
FcbScan(code, i, count, found) ==
    IF i >= Len(code) THEN NotFoundOffset(code)
    ELSE LET c == BraceCountAfter(code[i + 1], count)
             f == FoundAfter(code[i + 1], found)
         IN  IF f /\ c = 0 THEN ReturnOffset(i)
             ELSE FcbScan(code, i + 1, c, f)

\* find_closing_brace(code, start_pos)
FindClosingBrace(code, start_pos) == FcbScan(code, start_pos, 0, FALSE)

\* lines 35-36 and the entry into the for loop
FcbCall ==
    /\ fcb_pc = "idle"
    /\ \E code \in BraceTexts, start_pos \in 0..MaxLen :
        /\ start_pos <= Len(code)
        /\ fcb_code' = code
        /\ fcb_start' = start_pos
        /\ fcb_i' = start_pos
    /\ fcb_count' = 0
    /\ fcb_found' = FALSE
    /\ fcb_steps' = 0
    /\ fcb_pc' = "loop"
    /\ UNCHANGED <<fcb_ret, pf_vars, ext_vars>>

\* lines 38-46: one iteration of the for loop
FcbStep ==
    /\ fcb_pc = "loop"
    /\ fcb_i < Len(fcb_code)
    /\ LET c == BraceCountAfter(fcb_code[fcb_i + 1], fcb_count)
           f == FoundAfter(fcb_code[fcb_i + 1], fcb_found)
       IN  /\ fcb_count' = c
           /\ fcb_found' = f
           /\ fcb_steps' = fcb_steps + 1
           /\ IF f /\ c = 0
              THEN /\ fcb_ret' = ReturnOffset(fcb_i)
                   /\ fcb_pc' = "done"
                   /\ UNCHANGED fcb_i
              ELSE /\ fcb_i' = fcb_i + 1
                   /\ UNCHANGED <<fcb_ret, fcb_pc>>
    /\ UNCHANGED <<fcb_code, fcb_start, pf_vars, ext_vars>>

\* line 48: the range is exhausted
FcbExhausted ==
    /\ fcb_pc = "loop"
    /\ fcb_i >= Len(fcb_code)
    /\ fcb_ret' = NotFoundOffset(fcb_code)
    /\ fcb_pc' = "done"
    /\ UNCHANGED <<fcb_code, fcb_start, fcb_i, fcb_count, fcb_found, fcb_steps, pf_vars, ext_vars>>

FcbNext ==
    \/ FcbCall
    \/ FcbStep
    \/ FcbExhausted

----------------------------------------------------------------------------
(* Source texts                                                            *)
(*                                                                         *)
(* A source text is a sequence of tokens: keywords and one-letter          *)
(* identifiers (each a run of [A-Za-z0-9_] characters), punctuation, the   *)
(* blank " " and the line break "\n".  The regular expressions of the      *)
(* parsers are translated token by token; in the texts the model builds,   *)
(* two identifier tokens are always separated by a blank or punctuation.   *)

\* Python's None (no identifier of the model is spelled like it)
None == "None"

Names == {"f", "g", "m", "A", "B", "s", "v"}

Keywords == {"func", "class", "def", "public", "virtual", "sealed", "pass", "return", "if"}

\* a token matched by [A-Za-z0-9_]+
IsIdent(t) == t \in Names \cup Keywords

\* a token matched by \s
IsSpace(t) == t \in {" ", "\n"}

\* token at 0-based offset p, "" beyond the text
At(s, p) == IF p >= 0 /\ p < Len(s) THEN s[p + 1] ELSE ""

RECURSIVE SkipSpaces(_, _)
\* \s*: the first offset at or after p that holds no white space
SkipSpaces(s, p) == IF IsSpace(At(s, p)) THEN SkipSpaces(s, p + 1) ELSE p

RECURSIVE SplitFrom(_, _, _)
\* the lines of s from offset p on, the first of them starting at offset a <= p
SplitFrom(s, p, a) ==
    IF p >= Len(s) THEN (IF a >= Len(s) THEN <<>> ELSE <<SubSeq(s, a + 1, Len(s))>>)
    ELSE IF s[p + 1] = "\n" THEN <<SubSeq(s, a + 1, p)>> \o SplitFrom(s, p + 1, p + 1)
    ELSE SplitFrom(s, p + 1, a)

\* str.splitlines(): the lines without their line breaks; a final line break
\* opens no further line
SplitLines(s) == SplitFrom(s, 0, 0)

RECURSIVE JoinLines(_)
\* "\n".join(lines)
JoinLines(lines) ==
    IF lines = <<>> THEN <<>>
    ELSE IF Len(lines) = 1 THEN lines[1]
    ELSE lines[1] \o <<"\n">> \o JoinLines(Tail(lines))

\* number of "\n" in s[:p]
RECURSIVE CountNewlines(_, _)
CountNewlines(s, p) ==
    IF p <= 0 THEN 0
    ELSE (IF At(s, p - 1) = "\n" THEN 1 ELSE 0) + CountNewlines(s, p - 1)

\* the tokens t occurs among
Contains(s, t) == \E k \in 1..Len(s) : s[k] = t

\* CodeSnippet (schemas.py 4-11), file_path left out
CodeSnippet(name, type, code, language, class_name) ==
    [name |-> name, type |-> type, code |-> code, language |-> language,
     class_name |-> class_name]

----------------------------------------------------------------------------
(* GoParser.parse_code (go_parser.py 10-80)                                *)

\* line 28: re.match(r'\s*func\s+', line)
GoIsFuncLine(line) ==
    LET p == SkipSpaces(line, 0)
    IN  At(line, p) = "func" /\ IsSpace(At(line, p + 1))

RECURSIVE UntilParen(_, _)
\* [^)]*: the offset of the first ")" at or after p, Len(s) when there is none
UntilParen(s, p) ==
    IF p >= Len(s) \/ s[p + 1] = ")" THEN p ELSE UntilParen(s, p + 1)

\* line 34 at one offset: func\s+(?:\(([^)]+)\)\s+)?([A-Za-z0-9_]+)
\* gives <<receiver, func_name>>, <<>> when the pattern does not match at p
GoHeaderAt(line, p) ==
    IF ~(At(line, p) = "func" /\ IsSpace(At(line, p + 1))) THEN <<>>
    ELSE LET q == SkipSpaces(line, p + 1)
             r == UntilParen(line, q + 1)
             n == SkipSpaces(line, r + 1)
             withRecv == /\ At(line, q) = "("
                         /\ r > q + 1
                         /\ At(line, r) = ")"
                         /\ IsSpace(At(line, r + 1))
                         /\ IsIdent(At(line, n))
         IN  IF withRecv THEN <<SubSeq(line, q + 2, r), At(line, n)>>
             ELSE IF IsIdent(At(line, q)) THEN <<<<>>, At(line, q)>>
             ELSE <<>>

RECURSIVE GoHeaderFrom(_, _)
\* re.search: the match at the leftmost offset
GoHeaderFrom(line, p) ==
    IF p >= Len(line) THEN <<>>
    ELSE LET Found(m) == IF m # <<>> THEN m ELSE GoHeaderFrom(line, p + 1)
         IN  Found(GoHeaderAt(line, p))

\* line 39 at one offset: \s*\w+\s+\*?([A-Za-z0-9_]+)
GoReceiverTypeAt(recv, p) ==
    LET a == SkipSpaces(recv, p)
        b == SkipSpaces(recv, a + 1)
        c == IF At(recv, b) = "*" THEN b + 1 ELSE b
    IN  IF IsIdent(At(recv, a)) /\ IsSpace(At(recv, a + 1)) /\ IsIdent(At(recv, c))
        THEN At(recv, c)
        ELSE None

RECURSIVE GoReceiverTypeFrom(_, _)
GoReceiverTypeFrom(recv, p) ==
    IF p >= Len(recv) THEN None
    ELSE LET Found(t) == IF t # None THEN t ELSE GoReceiverTypeFrom(recv, p + 1)
         IN  Found(GoReceiverTypeAt(recv, p))

\* lines 30-41: <<func_name, class_name>> of a header line
GoNames(line) ==
    LET Found(m) == IF m = <<>> THEN <<"", None>>
                    ELSE IF m[1] = <<>> THEN <<m[2], None>>
                    ELSE <<m[2], GoReceiverTypeFrom(m[1], 0)>>
    IN  Found(GoHeaderFrom(line, 0))

RECURSIVE BraceDelta(_)
\* lines 49-53: what the braces of one line add to brace_count
BraceDelta(line) ==
    IF line = <<>> THEN 0
    ELSE BraceCountAfter(Head(line), 0) + BraceDelta(Tail(line))

RECURSIVE GoFuncEnd(_, _, _, _)
\* lines 47-60: the loop over j, giving func_end
GoFuncEnd(lines, j, brace_count, func_end) ==
    IF j >= Len(lines) THEN func_end
    ELSE LET c == brace_count + BraceDelta(lines[j + 1])
             e == IF c > 0 THEN j ELSE func_end
         IN  IF c = 0 /\ Contains(lines[j + 1], "{") THEN j
             ELSE GoFuncEnd(lines, j + 1, c, e)

\* a parser that calls every Go snippet a function
GoType_AlwaysFunction(class_name) == "function"

\* line 66: the type of a Go snippet
GoType(class_name) == IF class_name \notin {None, ""} THEN "method" ELSE "function"

RECURSIVE GoParseFrom(_, _, _)
\* lines 25-73: the while loop from line index i
GoParseFrom(lines, i, snippets) ==
    IF i >= Len(lines) THEN snippets
    ELSE IF GoIsFuncLine(lines[i + 1])
    THEN LET Extract(names, func_end) ==
                 GoParseFrom(lines, func_end + 1,
                             Append(snippets,
                                    CodeSnippet(names[1], GoType(names[2]),
                                                JoinLines(SubSeq(lines, i + 1, func_end + 1)),
                                                "go", names[2])))
         IN  Extract(GoNames(lines[i + 1]), GoFuncEnd(lines, i, 0, i))
    ELSE GoParseFrom(lines, i + 1, snippets)

\* GoParser.parse_code(code); nothing in the body raises
GoParseCode(code) == GoParseFrom(SplitLines(code), 0, <<>>)

----------------------------------------------------------------------------
(* re.finditer for the patterns of the C++ and C# parsers.  A pattern is    *)
(* given by its name; MatchAt gives the match that starts at offset p as   *)
(* [start, end, name] (name: group 1), or NoMatch.                         *)

NoMatch == [start |-> -1, end |-> -1, name |-> ""]

Match(start, end, name) == [start |-> start, end |-> end, name |-> name]

RECURSIVE WordRunEnd(_, _)
\* the first offset at or after p that holds neither an identifier nor white space
WordRunEnd(s, p) ==
    IF IsIdent(At(s, p)) \/ IsSpace(At(s, p)) THEN WordRunEnd(s, p + 1) ELSE p

RECURSIVE LastIdentBefore(_, _)
\* the offset of the last identifier token before offset r, -1 when there is none
LastIdentBefore(s, r) ==
    IF r <= 0 THEN -1
    ELSE IF IsIdent(At(s, r - 1)) THEN r - 1
    ELSE LastIdentBefore(s, r - 1)

\* \s*\([^)]*\) ... \s*\{ from offset p: the offset after the "{", -1 if no match
\* (the optional const, noexcept, override, final, = 0 and where clauses do not
\* occur in the model's texts)
ParamsAndBrace(s, p) ==
    LET a == SkipSpaces(s, p)
        c == UntilParen(s, a + 1)
        b == SkipSpaces(s, c + 1)
    IN  IF At(s, a) = "(" /\ At(s, c) = ")" /\ At(s, b) = "{" THEN b + 1 ELSE -1

\* cpp_parser.py 24: class\s+([A-Za-z0-9_]+)(?: : base)?\s*\{
CppClassAt(s, p) ==
    LET n == SkipSpaces(s, p + 1)
        b == SkipSpaces(s, n + 1)
    IN  IF At(s, p) = "class" /\ IsSpace(At(s, p + 1)) /\ IsIdent(At(s, n)) /\ At(s, b) = "{"
        THEN Match(p, b + 1, At(s, n))
        ELSE NoMatch

\* cpp_parser.py 62: (?:static\s+)?(?:inline\s+)?(?:TYPE\s+)?([A-Za-z0-9_]+)\s*\([^)]*\) ... \s*\{
\* with the optional return type, else without it
CppFuncAt(s, p) ==
    LET n == SkipSpaces(s, p + 1)
        e2 == ParamsAndBrace(s, n + 1)
        e1 == ParamsAndBrace(s, p + 1)
    IN  IF IsIdent(At(s, p)) /\ IsSpace(At(s, p + 1)) /\ IsIdent(At(s, n)) /\ e2 # -1
        THEN Match(p, e2, At(s, n))
        ELSE IF IsIdent(At(s, p)) /\ e1 # -1 THEN Match(p, e1, At(s, p))
        ELSE NoMatch

\* cpp_parser.py 40: as line 62 with an optional leading virtual\s+ (and trailing
\* override, final, = 0)
CppMethodAt(s, p) ==
    LET AfterVirtual(rest) ==
            IF At(s, p) = "virtual" /\ IsSpace(At(s, p + 1)) /\ rest # NoMatch
            THEN Match(p, rest.end, rest.name)
            ELSE CppFuncAt(s, p)
    IN  AfterVirtual(CppFuncAt(s, SkipSpaces(s, p + 1)))

\* csharp_parser.py 28:
\* (?:public|private|protected|internal|static)?\s+(?:abstract|sealed)?\s+class\s+NAME(?: : bases)?\s*\{
\* the two \s+ need two white-space characters, or one on each side of "sealed"
CsClassAt(s, p) ==
    LET a == IF At(s, p) = "public" THEN p + 1 ELSE p
        b == SkipSpaces(s, a)
        c == IF At(s, b) = "sealed" THEN SkipSpaces(s, b + 1) ELSE b
        gap == IF At(s, b) = "sealed" THEN b > a /\ c > b + 1 ELSE b >= a + 2
        n == SkipSpaces(s, c + 1)
        e == SkipSpaces(s, n + 1)
    IN  IF gap /\ At(s, c) = "class" /\ IsSpace(At(s, c + 1)) /\ IsIdent(At(s, n)) /\ At(s, e) = "{"
        THEN Match(p, e + 1, At(s, n))
        ELSE NoMatch

\* the modifiers a C# method pattern (line 51) and a function pattern (line 85) may start with
CsMethodModifiers == {"public", "virtual", "sealed"}

CsFuncModifiers == {"public"}

\* csharp_parser.py 51 and 85: MOD(?:\s+MOD)*\s+(?:[A-Za-z0-9_<>[\],\s]+)\s+([A-Za-z0-9_]+)\s*\([^)]*\) ... \s*\{
\* between the first modifier and the name lie identifiers and white space only,
\* at least three characters, white space first and last
CsSignatureAt(s, p, modifiers) ==
    LET r == WordRunEnd(s, p + 1)
        n == LastIdentBefore(s, r)
        e == ParamsAndBrace(s, r)
    IN  IF /\ At(s, p) \in modifiers
           /\ n >= p + 4
           /\ IsSpace(At(s, p + 1)) /\ IsSpace(At(s, n - 1))
           /\ e # -1
        THEN Match(p, e, At(s, n))
        ELSE NoMatch

\* the match of pattern pat that starts at offset p
MatchAt(pat, s, p) ==
    CASE pat = "cpp_class" -> CppClassAt(s, p)
      [] pat = "cpp_func" -> CppFuncAt(s, p)
      [] pat = "cpp_method" -> CppMethodAt(s, p)
      [] pat = "cs_class" -> CsClassAt(s, p)
      [] pat = "cs_method" -> CsSignatureAt(s, p, CsMethodModifiers)
      [] pat = "cs_func" -> CsSignatureAt(s, p, CsFuncModifiers)

RECURSIVE FindIterFrom(_, _, _)
FindIterFrom(pat, s, p) ==
    IF p >= Len(s) THEN <<>>
    ELSE LET Found(m) == IF m = NoMatch THEN FindIterFrom(pat, s, p + 1)
                         ELSE <<m>> \o FindIterFrom(pat, s, m.end)
         IN  Found(MatchAt(pat, s, p))

\* re.finditer(pattern, s): the non-overlapping matches, leftmost first
FindIter(pat, s) == FindIterFrom(pat, s, 0)

----------------------------------------------------------------------------
(* CppParser.parse_code (cpp_parser.py 10-93)                              *)

\* the methods a CppParser instance has: its own parse_code and what BaseParser
\* defines (base_parser.py 12, 24, 50; cpp_parser.py 95 is only a comment)
CppParserAttributes == {"parse_code", "find_closing_brace", "extract_function_body"}

\* self._find_closing_brace(code, pos) at lines 32, 49 and 77: the attribute
\* lookup raises AttributeError unless the instance has a method of that name
CppCallFindClosingBrace(code, pos) ==
    IF "_find_closing_brace" \in CppParserAttributes
    THEN [raised |-> FALSE, value |-> FindClosingBrace(code, pos)]
    ELSE [raised |-> TRUE, value |-> -1]

RECURSIVE CppClassRanges(_, _)
\* lines 27-33: <<class_start, class_end, class_name>> per class match, or the
\* exception
CppClassRanges(code, class_matches) ==
    IF class_matches = <<>> THEN [raised |-> FALSE, value |-> <<>>]
    ELSE LET m == Head(class_matches)
             e == CppCallFindClosingBrace(code, m.start)
             rest == CppClassRanges(code, Tail(class_matches))
         IN  IF e.raised \/ rest.raised THEN [raised |-> TRUE, value |-> <<>>]
             ELSE [raised |-> FALSE, value |-> <<<<m.start, e.value, m.name>>>> \o rest.value]

RECURSIVE CppMethods(_, _, _)
\* lines 43-59: the snippets of the method matches of one class
CppMethods(class_code, class_name, method_matches) ==
    IF method_matches = <<>> THEN [raised |-> FALSE, value |-> <<>>]
    ELSE LET m == Head(method_matches)
             e == CppCallFindClosingBrace(class_code, m.start)
             rest == CppMethods(class_code, class_name, Tail(method_matches))
         IN  IF m.name = class_name THEN rest
             ELSE IF e.raised \/ rest.raised THEN [raised |-> TRUE, value |-> <<>>]
             ELSE [raised |-> FALSE,
                   value |-> <<CodeSnippet(m.name, "method", Slice(class_code, m.start, e.value),
                                           "cpp", class_name)>> \o rest.value]

RECURSIVE CppAllMethods(_, _)
\* lines 36-59: the loop over class_ranges
CppAllMethods(code, class_ranges) ==
    IF class_ranges = <<>> THEN [raised |-> FALSE, value |-> <<>>]
    ELSE LET r == Head(class_ranges)
             Both(here, rest) ==
                 IF here.raised \/ rest.raised THEN [raised |-> TRUE, value |-> <<>>]
                 ELSE [raised |-> FALSE, value |-> here.value \o rest.value]
             OfClass(class_code) ==
                 Both(CppMethods(class_code, r[3], FindIter("cpp_method", class_code)),
                      CppAllMethods(code, Tail(class_ranges)))
         IN  OfClass(Slice(code, r[1], r[2]))

\* lines 69-73: start <= func_start <= end for some class range
CppInClass(class_ranges, func_start) ==
    \E k \in 1..Len(class_ranges) :
        class_ranges[k][1] <= func_start /\ func_start <= class_ranges[k][2]

RECURSIVE CppFunctions(_, _, _)
\* lines 65-87: the loop over func_matches
CppFunctions(code, class_ranges, func_matches) ==
    IF func_matches = <<>> THEN [raised |-> FALSE, value |-> <<>>]
    ELSE LET m == Head(func_matches)
             e == CppCallFindClosingBrace(code, m.start)
             rest == CppFunctions(code, class_ranges, Tail(func_matches))
         IN  IF CppInClass(class_ranges, m.start) THEN rest
             ELSE IF e.raised \/ rest.raised THEN [raised |-> TRUE, value |-> <<>>]
             ELSE [raised |-> FALSE,
                   value |-> <<CodeSnippet(m.name, "function", Slice(code, m.start, e.value),
                                           "cpp", None)>> \o rest.value]

\* CppParser.parse_code(code): lines 20-93; any exception ends in return [] (91-93)
CppParseCode(code) ==
    LET Snippets(ranges, methods, functions) ==
            IF ranges.raised \/ methods.raised \/ functions.raised THEN <<>>
            ELSE methods.value \o functions.value
        AfterClasses(ranges) ==
            Snippets(ranges, CppAllMethods(code, ranges.value),
                     CppFunctions(code, ranges.value, FindIter("cpp_func", code)))
    IN  AfterClasses(CppClassRanges(code, FindIter("cpp_class", code)))

----------------------------------------------------------------------------
(* CSharpParser.parse_code (csharp_parser.py 10-129)                       *)

RECURSIVE CsBraceScan(_, _, _, _)
\* lines 33-45, 59-71, 102-114: the end of a brace-matched span that starts at
\* offset start; the span stays empty (end = start) when the braces never balance
CsBraceScan(code, j, brace_count, start) ==
    IF j >= Len(code) THEN start
    ELSE LET c == BraceCountAfter(code[j + 1], brace_count)
         IN  IF code[j + 1] = "}" /\ c = 0 THEN j + 1
             ELSE CsBraceScan(code, j + 1, c, start)

CsBraceEnd(code, start) == CsBraceScan(code, start, 0, start)

RECURSIVE CsMethods(_, _, _)
\* lines 54-79: the snippets of the method matches of one class
CsMethods(class_code, class_name, method_matches) ==
    IF method_matches = <<>> THEN <<>>
    ELSE LET m == Head(method_matches)
             method_end == CsBraceEnd(class_code, m.start)
             rest == CsMethods(class_code, class_name, Tail(method_matches))
         IN  IF m.name = class_name THEN rest
             ELSE <<CodeSnippet(m.name, "method", Slice(class_code, m.start, method_end),
                                "csharp", class_name)>> \o rest

RECURSIVE CsAllMethods(_, _)
\* lines 32-79: the loop over class_matches
CsAllMethods(code, class_matches) ==
    IF class_matches = <<>> THEN <<>>
    ELSE LET m == Head(class_matches)
             class_code == Slice(code, m.start, CsBraceEnd(code, m.start))
         IN  CsMethods(class_code, m.name, FindIter("cs_method", class_code))
                 \o CsAllMethods(code, Tail(class_matches))

\* line 83: class_ranges = [(m.start(), m.end()) for m in class_matches]
CsClassRange(code, m) == <<m.start, m.end>>

\* lines 93-96: start <= func_start <= end for some class range
CsInClass(code, class_matches, func_start) ==
    \E k \in 1..Len(class_matches) :
        LET r == CsClassRange(code, class_matches[k])
        IN  r[1] <= func_start /\ func_start <= r[2]

RECURSIVE CsFunctions(_, _, _)
\* lines 88-122: the loop over func_matches
CsFunctions(code, class_matches, func_matches) ==
    IF func_matches = <<>> THEN <<>>
    ELSE LET m == Head(func_matches)
             rest == CsFunctions(code, class_matches, Tail(func_matches))
         IN  IF CsInClass(code, class_matches, m.start) THEN rest
             ELSE <<CodeSnippet(m.name, "function", Slice(code, m.start, CsBraceEnd(code, m.start)),
                                "csharp", None)>> \o rest

\* CSharpParser.parse_code(code); nothing in the body raises
CsParseCode(code) ==
    LET AfterClasses(class_matches) ==
            CsAllMethods(code, class_matches)
                \o CsFunctions(code, class_matches, FindIter("cs_func", code))
    IN  AfterClasses(FindIter("cs_class", code))

----------------------------------------------------------------------------
(* Syntax trees.  ast.parse and javalang.parse.parse are library code: the *)
(* model does not parse.  A Python or Java text is built from a list of    *)
(* declarations, and the tree the library returns for it is that list with *)
(* the line numbers the rendering gives.  A declaration is                 *)
(* [kind, name, body]; the tree node of it is [kind, name, lineno,         *)
(* end_lineno, body].                                                      *)

Decl(kind, name, body) == [kind |-> kind, name |-> name, body |-> body]

RECURSIVE LineCount(_, _)
\* the number of lines the declarations ds take: a declaration without body is
\* one line; closing is 1 when a body ends with a line of its own
LineCount(ds, closing) ==
    IF ds = <<>> THEN 0
    ELSE LET d == Head(ds)
             own == IF d.body = <<>> THEN 1 ELSE 1 + LineCount(d.body, closing) + closing
         IN  own + LineCount(Tail(ds), closing)

RECURSIVE TreeOf(_, _, _)
\* the nodes of the declarations ds, the first of them on line lineno (1-based);
\* closing is 1 when a body ends with a line of its own (a closing brace)
TreeOf(ds, lineno, closing) ==
    IF ds = <<>> THEN <<>>
    ELSE LET d == Head(ds)
             n == LineCount(<<d>>, closing)
         IN  <<[kind |-> d.kind, name |-> d.name, lineno |-> lineno,
                end_lineno |-> lineno + n - 1,
                body |-> TreeOf(d.body, lineno + 1, closing)]>>
                 \o TreeOf(Tail(ds), lineno + n, closing)

RECURSIVE HasKind(_, _)
\* some declaration of ds, at any depth, is of the given kind
HasKind(ds, kind) ==
    \E k \in 1..Len(ds) : ds[k].kind = kind \/ HasKind(ds[k].body, kind)

RECURSIVE Spaces(_)
\* the indentation of depth d: two blanks per level
Spaces(d) == IF d = 0 THEN <<>> ELSE <<" ", " ">> \o Spaces(d - 1)

----------------------------------------------------------------------------
(* PythonParser (python_parser.py)                                         *)

RECURSIVE PyRender(_, _)
\* the lines of Python declarations at nesting depth d:
\*   def    "def NAME():" and its body            class  "class NAME:" and its body
\*   if     "if v:" and its body                  pass   "pass"
\*   bad    ")" (a line no Python grammar accepts)
\*   comment  "#" in column 0, whatever the depth
PyRender(ds, d) ==
    IF ds = <<>> THEN <<>>
    ELSE LET x == Head(ds)
             header == CASE x.kind = "def" -> <<"def", " ", x.name, "(", ")", ":">>
                         [] x.kind = "class" -> <<"class", " ", x.name, ":">>
                         [] x.kind = "if" -> <<"if", " ", x.name, ":">>
                         [] x.kind = "pass" -> <<"pass">>
                         [] x.kind = "bad" -> <<")">>
                         [] x.kind = "comment" -> <<"#">>
             margin == IF x.kind = "comment" THEN <<>> ELSE Spaces(d)
         IN  <<margin \o header>> \o PyRender(x.body, d + 1) \o PyRender(Tail(ds), d)

\* the Python text of the declarations ds
PyText(ds) == JoinLines(PyRender(ds, 0))

\* line 32: ast.parse(code) raises SyntaxError
PyRaisesSyntaxError(ds) == HasKind(ds, "bad")

\* line 32: the body of the Module node ast.parse returns
PyAstParse(ds) == TreeOf(ds, 1, 0)

\* lines 55-56, 81-82: "\n".join(code.splitlines()[node.lineno-1:node.end_lineno])
PyNodeCode(code, node) ==
    JoinLines(Slice(SplitLines(code), node.lineno - 1, node.end_lineno))

RECURSIVE PyTopFunctions(_, _)
\* lines 49-68: the top-level FunctionDef nodes
PyTopFunctions(code, nodes) ==
    IF nodes = <<>> THEN <<>>
    ELSE LET n == Head(nodes)
         IN  (IF n.kind = "def"
              THEN <<CodeSnippet(n.name, "function", PyNodeCode(code, n), "python", None)>>
              ELSE <<>>) \o PyTopFunctions(code, Tail(nodes))

RECURSIVE PyMethods(_, _, _)
\* lines 75-94: the FunctionDef children of one ClassDef
PyMethods(code, class_name, nodes) ==
    IF nodes = <<>> THEN <<>>
    ELSE LET n == Head(nodes)
         IN  (IF n.kind = "def"
              THEN <<CodeSnippet(n.name, "method", PyNodeCode(code, n), "python", class_name)>>
              ELSE <<>>) \o PyMethods(code, class_name, Tail(nodes))

RECURSIVE PyClassMethods(_, _)
\* lines 71-94: the top-level ClassDef nodes
PyClassMethods(code, nodes) ==
    IF nodes = <<>> THEN <<>>
    ELSE LET n == Head(nodes)
         IN  (IF n.kind = "class" THEN PyMethods(code, n.name, n.body) ELSE <<>>)
                 \o PyClassMethods(code, Tail(nodes))

\* line 129 at one offset: def\s+([a-zA-Z_][a-zA-Z0-9_]*)\s*\(([^)]*)\)(?:\s*->.*?)?:
PyDefAt(s, p) ==
    LET n == SkipSpaces(s, p + 1)
        a == SkipSpaces(s, n + 1)
        c == UntilParen(s, a + 1)
    IN  IF /\ At(s, p) = "def" /\ IsSpace(At(s, p + 1)) /\ IsIdent(At(s, n))
           /\ At(s, a) = "(" /\ At(s, c) = ")" /\ At(s, c + 1) = ":"
        THEN Match(p, c + 2, At(s, n))
        ELSE NoMatch

RECURSIVE PyFindDefs(_, _)
\* line 130: re.finditer(func_pattern, code)
PyFindDefs(s, p) ==
    IF p >= Len(s) THEN <<>>
    ELSE LET m == PyDefAt(s, p)
         IN  IF m = NoMatch THEN PyFindDefs(s, p + 1)
             ELSE <<m>> \o PyFindDefs(s, m.end)

RECURSIVE LeadingSpaces(_)
\* len of the match of ^(\s+), 0 when the line starts with no white space
LeadingSpaces(line) ==
    IF line # <<>> /\ IsSpace(Head(line)) THEN 1 + LeadingSpaces(Tail(line)) ELSE 0

\* line 153: lines[line_no].strip() == '' or lines[line_no].strip().startswith('#')
PyBlankOrComment(line) ==
    LET k == LeadingSpaces(line)
    IN  k = Len(line) \/ At(line, k) = "#"

RECURSIVE PyBodyEnd(_, _, _, _)
\* lines 152-169: the while loop; indent = -1 stands for indent is None
PyBodyEnd(lines, line_no, indent, func_end_line) ==
    IF line_no >= Len(lines) THEN func_end_line
    ELSE IF PyBlankOrComment(lines[line_no + 1])
    THEN PyBodyEnd(lines, line_no + 1, indent, line_no + 1)
    ELSE IF indent = -1 \/ LeadingSpaces(lines[line_no + 1]) > indent
    THEN PyBodyEnd(lines, line_no + 1, indent, line_no + 1)
    ELSE func_end_line

\* lines 139, 144-149: indent, taken from the line after the header; -1 stands
\* for None (no such line, or one that starts with no white space)
PyIndent(lines, line_no) ==
    IF line_no < Len(lines) /\ LeadingSpaces(lines[line_no + 1]) > 0
    THEN LeadingSpaces(lines[line_no + 1]) ELSE -1

\* lines 137-173: the code of the function whose def starts at offset func_start
PyRegexCode(code, func_start) ==
    LET lines == SplitLines(code)
        start_line == CountNewlines(code, func_start)
        line_no == start_line + 1
        indent == PyIndent(lines, line_no)
        func_end_line == IF line_no < Len(lines)
                         THEN PyBodyEnd(lines, line_no, indent, start_line)
                         ELSE start_line
    IN  JoinLines(Slice(lines, start_line, func_end_line))

RECURSIVE PyRegexSnippets(_, _)
\* lines 132-186: one snippet per match
PyRegexSnippets(code, matches) ==
    IF matches = <<>> THEN <<>>
    ELSE <<CodeSnippet(Head(matches).name, "function", PyRegexCode(code, Head(matches).start),
                       "python", None)>> \o PyRegexSnippets(code, Tail(matches))

\* _parse_with_regex(code): lines 123-188
PyParseWithRegex(code) == PyRegexSnippets(code, PyFindDefs(code, 0))

\* line 26: not code or not code.strip()
PyIsEmpty(code) == \A k \in 1..Len(code) : IsSpace(code[k])

\* parse_code without lines 108-116: a syntax error gives the empty list
PyParseCode_NoFallback(code, ds) ==
    IF PyIsEmpty(code) \/ PyRaisesSyntaxError(ds) THEN <<>>
    ELSE LET tree == PyAstParse(ds)
             snippets == PyTopFunctions(code, tree) \o PyClassMethods(code, tree)
         IN  IF snippets = <<>> THEN PyParseWithRegex(code) ELSE snippets

\* PythonParser.parse_code(code): lines 22-116.  ds: the declarations the text
\* was built from, which decide what ast.parse makes of it
PyParseCode(code, ds) ==
    IF PyIsEmpty(code) THEN <<>>
    ELSE IF PyRaisesSyntaxError(ds) THEN PyParseWithRegex(code)
    ELSE LET tree == PyAstParse(ds)
             snippets == PyTopFunctions(code, tree) \o PyClassMethods(code, tree)
         IN  IF snippets = <<>> THEN PyParseWithRegex(code) ELSE snippets

----------------------------------------------------------------------------
(* BaseParser.extract_function_body and JavaParser (java_parser.py)        *)

RECURSIVE BodyEndLine(_, _, _, _)
\* base_parser.py 66-83: the loop over the lines from start_line, giving end_line
BodyEndLine(lines, i, brace_count, found) ==
    IF i >= Len(lines) THEN (IF Len(lines) = 0 THEN 0 ELSE Len(lines) - 1)
    ELSE LET c == brace_count + BraceDelta(lines[i + 1])
             f == found \/ Contains(lines[i + 1], "{")
         IN  IF f /\ c = 0 THEN i ELSE BodyEndLine(lines, i + 1, c, f)

\* base_parser.py 62-83: end_line when the argument is omitted
ExtractEndLine(lines, start_line) ==
    IF start_line >= Len(lines) THEN start_line
    ELSE BodyEndLine(lines, start_line, 0, FALSE)

\* extract_function_body(code, start_line) with end_line omitted (base_parser.py 50-85)
ExtractFunctionBody(code, start_line) ==
    LET lines == SplitLines(code)
        end_line == ExtractEndLine(lines, start_line)
    IN  JoinLines(Slice(lines, start_line, end_line + 1))

RECURSIVE JavaRender(_, _)
\* the lines of Java declarations at nesting depth d:
\*   class   "class NAME {", its members, "}"      method  "v NAME() { }"
\*   bad     ")" (a line no Java grammar accepts)
\*   abstract  "v NAME();" (a method without body)
JavaRender(ds, d) ==
    IF ds = <<>> THEN <<>>
    ELSE LET x == Head(ds)
             own == CASE x.kind = "class" /\ x.body = <<>> ->
                            <<Spaces(d) \o <<"class", " ", x.name, " ", "{", " ", "}">>>>
                      [] x.kind = "class" /\ x.body # <<>> ->
                            <<Spaces(d) \o <<"class", " ", x.name, " ", "{">>>>
                                \o JavaRender(x.body, d + 1) \o <<Spaces(d) \o <<"}">>>>
                      [] x.kind = "method" ->
                            <<Spaces(d) \o <<"v", " ", x.name, "(", ")", " ", "{", " ", "}">>>>
                      [] x.kind = "bad" -> <<Spaces(d) \o <<")">>>>
                      [] x.kind = "abstract" ->
                            <<Spaces(d) \o <<"v", " ", x.name, "(", ")", ";">>>>
         IN  own \o JavaRender(Tail(ds), d)

\* the Java text of the declarations ds
JavaText(ds) == JoinLines(JavaRender(ds, 0))

\* line 21: javalang.parse.parse(code) raises
JavaRaisesSyntaxError(ds) == HasKind(ds, "bad")

\* line 21: the type declarations of the CompilationUnit javalang returns
JavaTreeParse(ds) == TreeOf(ds, 1, 1)

RECURSIVE JavaClassNodes(_)
\* line 25: tree.filter(javalang.tree.ClassDeclaration): every class declaration,
\* nested ones included, each before the declarations inside it
JavaClassNodes(nodes) ==
    IF nodes = <<>> THEN <<>>
    ELSE LET n == Head(nodes)
         IN  (IF n.kind = "class" THEN <<n>> ELSE <<>>)
                 \o JavaClassNodes(n.body) \o JavaClassNodes(Tail(nodes))

RECURSIVE JavaMethods(_, _, _)
\* lines 29-38: class_node.methods, the MethodDeclaration members of one class;
\* extract_method_code (46-64): position.line is the line the declaration starts on
JavaMethods(code, class_name, members) ==
    IF members = <<>> THEN <<>>
    ELSE LET n == Head(members)
         IN  (IF n.kind \in {"method", "abstract"}
              THEN <<CodeSnippet(n.name, "method", ExtractFunctionBody(code, n.lineno - 1),
                                 "java", class_name)>>
              ELSE <<>>) \o JavaMethods(code, class_name, Tail(members))

RECURSIVE JavaAllMethods(_, _)
JavaAllMethods(code, class_nodes) ==
    IF class_nodes = <<>> THEN <<>>
    ELSE JavaMethods(code, Head(class_nodes).name, Head(class_nodes).body)
             \o JavaAllMethods(code, Tail(class_nodes))

\* JavaParser.parse_code(code): lines 20-44; a parse error ends in return []
JavaParseCode(code, ds) ==
    IF JavaRaisesSyntaxError(ds) THEN <<>>
    ELSE JavaAllMethods(code, JavaClassNodes(JavaTreeParse(ds)))

----------------------------------------------------------------------------
(* The texts of Go, C++ and C# declarations                                *)

RECURSIVE GoRender(_)
\* the lines of Go declarations:
\*   func     "func NAME() {"            ptr      "func (s *A) NAME() {"
\*   unnamed  "func (A) NAME() {"        tight    "func (s *A)NAME() {"
\*   stmt     "return"                   open     "func NAME() {", never closed
\*   val      "func (s A) NAME() {"
\* a function without body statements closes on its header line, "... { }";
\* one with statements has them on lines of their own, then "}"
GoRender(ds) ==
    IF ds = <<>> THEN <<>>
    ELSE LET x == Head(ds)
             recv == CASE x.kind = "ptr" -> <<"(", "s", " ", "*", "A", ")", " ">>
                       [] x.kind = "val" -> <<"(", "s", " ", "A", ")", " ">>
                       [] x.kind = "unnamed" -> <<"(", "A", ")", " ">>
                       [] x.kind = "tight" -> <<"(", "s", " ", "*", "A", ")">>
                       [] OTHER -> <<>>
             header == <<"func", " ">> \o recv \o <<x.name, "(", ")", " ", "{">>
             own == IF x.kind = "stmt" THEN <<<<"return">>>>
                    ELSE IF x.kind = "open" THEN <<header>>
                    ELSE IF x.body = <<>> THEN <<header \o <<" ", "}">>>>
                    ELSE <<header>> \o <<Spaces(1) \o <<"return">>>> \o <<<<"}">>>>
         IN  own \o GoRender(Tail(ds))

GoText(ds) == JoinLines(GoRender(ds))

RECURSIVE CppRender(_, _)
\* the lines of C++ declarations at nesting depth d:
\*   class   "class NAME {", its members, "};"     method  "v NAME() { }"
\*   ctor    "NAME() { }"
CppRender(ds, d) ==
    IF ds = <<>> THEN <<>>
    ELSE LET x == Head(ds)
             own == CASE x.kind = "class" /\ x.body = <<>> ->
                            <<Spaces(d) \o <<"class", " ", x.name, " ", "{", " ", "}", ";">>>>
                      [] x.kind = "class" /\ x.body # <<>> ->
                            <<Spaces(d) \o <<"class", " ", x.name, " ", "{">>>>
                                \o CppRender(x.body, d + 1) \o <<Spaces(d) \o <<"}", ";">>>>
                      [] x.kind = "method" ->
                            <<Spaces(d) \o <<"v", " ", x.name, "(", ")", " ", "{", " ", "}">>>>
                      [] x.kind = "ctor" ->
                            <<Spaces(d) \o <<x.name, "(", ")", " ", "{", " ", "}">>>>
         IN  own \o CppRender(Tail(ds), d)

CppText(ds) == JoinLines(CppRender(ds, 0))

RECURSIVE CsRender(_, _)
\* the lines of C# declarations at nesting depth d:
\*   class    "public sealed class NAME {", its members, "}"
\*   method   "public v NAME() { }"           virtual  "virtual v NAME() { }"
\*   open     "public v NAME() {", never closed
CsRender(ds, d) ==
    IF ds = <<>> THEN <<>>
    ELSE LET x == Head(ds)
             header == <<"public", " ", "sealed", " ", "class", " ", x.name, " ", "{">>
             own == CASE x.kind = "class" /\ x.body = <<>> ->
                            <<Spaces(d) \o header \o <<" ", "}">>>>
                      [] x.kind = "class" /\ x.body # <<>> ->
                            <<Spaces(d) \o header>>
                                \o CsRender(x.body, d + 1) \o <<Spaces(d) \o <<"}">>>>
                      [] x.kind = "method" ->
                            <<Spaces(d) \o <<"public", " ", "v", " ", x.name, "(", ")", " ", "{", " ", "}">>>>
                      [] x.kind = "virtual" ->
                            <<Spaces(d) \o <<"virtual", " ", "v", " ", x.name, "(", ")", " ", "{", " ", "}">>>>
                      [] x.kind = "open" ->
                            <<Spaces(d) \o <<"public", " ", "v", " ", x.name, "(", ")", " ", "{">>>>
         IN  own \o CsRender(Tail(ds), d)

CsText(ds) == JoinLines(CsRender(ds, 0))

----------------------------------------------------------------------------
(* The source texts the model parses, per language                         *)

Leaf(kind, name) == Decl(kind, name, <<>>)

\* bodies of 1..MaxMembers members
Bodies(members) == SeqsUpTo(members, MaxMembers) \ {<<>>}

GoDecls ==
    {Decl(k, n, b) : k \in {"func", "ptr", "unnamed", "tight"}, n \in {"f", "A"},
                     b \in {<<>>, <<Leaf("stmt", "")>>}}
        \cup {Leaf("stmt", ""), Leaf("open", "f"), Leaf("val", "f")}

CppDecls ==
    {Leaf("method", "g"), Leaf("method", "m")}
        \cup {Decl("class", "A", b) : b \in SeqsUpTo({Leaf("method", "m"), Leaf("ctor", "A")}, MaxMembers)}

CsDecls ==
    {Leaf("method", "g"), Leaf("method", "m"), Leaf("open", "g")}
        \cup {Decl("class", "A", b) :
                b \in SeqsUpTo({Leaf("method", "m"), Leaf("method", "A"), Leaf("virtual", "m")},
                               MaxMembers)}

PyDef(name) == Decl("def", name, <<Leaf("pass", "")>>)

PyDecls ==
    {PyDef("f"), PyDef("g"), Leaf("pass", ""), Leaf("bad", ""), Decl("if", "v", <<PyDef("f")>>),
     Decl("def", "m", <<Leaf("comment", ""), Leaf("pass", "")>>)}
        \cup {Decl("class", "A", b) :
                b \in Bodies({PyDef("f"), PyDef("A"), Decl("class", "B", <<PyDef("g")>>)})}

JavaDecls ==
    {Leaf("bad", ""), Decl("class", "A", <<Leaf("abstract", "f"), Leaf("method", "g")>>)}
        \cup {Decl("class", "A", b) :
                b \in SeqsUpTo({Leaf("method", "f"), Leaf("method", "A"),
                                Decl("class", "B", <<Leaf("method", "f")>>)}, MaxMembers)}

\* the language tags of the dispatch table (parser_factory.py 11-17)
SupportedTags == {"python", "java", "go", "cpp", "csharp"}

\* tags requests may carry
LanguageTags == SupportedTags \cup {"javascript", "Python", ""}

\* a source is the declarations it is built from and its text
Source(ds, text) == [decls |-> ds, code |-> text]

Sources(language) ==
    CASE language = "python" -> {Source(ds, PyText(ds)) : ds \in SeqsUpTo(PyDecls, MaxDecls)}
      [] language = "java" -> {Source(ds, JavaText(ds)) : ds \in SeqsUpTo(JavaDecls, MaxDecls)}
      [] language = "go" -> {Source(ds, GoText(ds)) : ds \in SeqsUpTo(GoDecls, MaxDecls)}
      [] language = "cpp" -> {Source(ds, CppText(ds)) : ds \in SeqsUpTo(CppDecls, MaxDecls)}
      [] language = "csharp" -> {Source(ds, CsText(ds)) : ds \in SeqsUpTo(CsDecls, MaxDecls)}
      [] OTHER -> {Source(<<>>, <<"v">>)}

----------------------------------------------------------------------------
(* ParserFactory (parser_factory.py) and the callers of the parsers        *)

\* lines 11-17: the class attribute _parsers, one parser instance per tag
InitialParsers ==
    << [key |-> "python", value |-> "PythonParser"],
       [key |-> "java", value |-> "JavaParser"],
       [key |-> "go", value |-> "GoParser"],
       [key |-> "cpp", value |-> "CppParser"],
       [key |-> "csharp", value |-> "CSharpParser"] >>

\* key in dict
DictHas(d, k) == \E i \in 1..Len(d) : d[i].key = k

\* dict[key]
DictGet(d, k) == d[CHOOSE i \in 1..Len(d) : d[i].key = k].value

\* list(dict.keys())
DictKeys(d) == [i \in 1..Len(d) |-> d[i].key]

\* get_parser falling back to the Python parser for a tag it does not know
GetParserResult_Fallback(table, language) ==
    IF ~DictHas(table, language)
    THEN [outcome |-> "returned", parser |-> DictGet(table, "python")]
    ELSE [outcome |-> "returned", parser |-> DictGet(table, language)]

\* get_parser(language): lines 33-36
GetParserResult(table, language) ==
    IF ~DictHas(table, language)
    THEN [outcome |-> "ValueError", parser |-> None]
    ELSE [outcome |-> "returned", parser |-> DictGet(table, language)]

\* get_supported_languages handing out the list the table keeps its keys in
SupportedLanguagesResult_Shared(table) == [items |-> DictKeys(table), shared |-> TRUE]

\* get_supported_languages(): line 46, list(...) makes a new list on every call;
\* shared says whether the list returned is an object the table itself uses
SupportedLanguagesResult(table) == [items |-> DictKeys(table), shared |-> FALSE]

\* the positional parameters parse_code takes after self: python_parser.py 11
\* (code, file_path = None); java_parser.py 10, go_parser.py 10, cpp_parser.py 10,
\* csharp_parser.py 10 (code)
ParseCodeParams(parser) == IF parser = "PythonParser" THEN 2 ELSE 1

\* the body of parser.parse_code on a source
RunParser(parser, src) ==
    CASE parser = "PythonParser" -> PyParseCode(src.code, src.decls)
      [] parser = "JavaParser" -> JavaParseCode(src.code, src.decls)
      [] parser = "GoParser" -> GoParseCode(src.code)
      [] parser = "CppParser" -> CppParseCode(src.code)
      [] parser = "CSharpParser" -> CsParseCode(src.code)

\* parser.parse_code(...) called with nargs positional arguments: Python raises
\* TypeError, before the body runs, when the method takes fewer
CallParseCode(parser, src, nargs) ==
    IF nargs > ParseCodeParams(parser)
    THEN [outcome |-> "TypeError", parser |-> parser, invoked |-> <<>>, snippets |-> <<>>]
    ELSE [outcome |-> "returned", parser |-> parser, invoked |-> <<parser>>,
          snippets |-> RunParser(parser, src)]

\* parser = ParserFactory.get_parser(language) followed by
\* parser.parse_code(...): test_generator.py 35-36, endpoints.py 153-154 and 309-310
GetAndCall(table, language, src, nargs) ==
    LET Got(g) == IF g.outcome = "returned" THEN CallParseCode(g.parser, src, nargs)
                  ELSE [outcome |-> g.outcome, parser |-> None, invoked |-> <<>>,
                        snippets |-> <<>>]
    IN  Got(GetParserResult(table, language))

NoList == [items |-> <<>>, shared |-> FALSE]

\* no call in progress
NoCall ==
    [op |-> "none", language |-> "", src |-> Source(<<>>, <<>>), outcome |-> "none",
     parser |-> None, invoked |-> <<>>, snippets |-> <<>>, list |-> NoList]

\* a call of op on language and src that ended as r says
CallOf(op, language, src, r) ==
    [NoCall EXCEPT !.op = op, !.language = language, !.src = src, !.outcome = r.outcome,
                   !.parser = r.parser, !.invoked = r.invoked, !.snippets = r.snippets]

\* an endpoint's answer before any parser is looked up
Refused(error) == [outcome |-> error, parser |-> None, invoked |-> <<>>, snippets |-> <<>>]

\* ParserFactory.get_parser(language) called on its own
GetParser ==
    /\ call.op = "none"
    /\ \E language \in LanguageTags :
        LET r == GetParserResult(parsers, language)
        IN  call' = [NoCall EXCEPT !.op = "get_parser", !.language = language,
                                   !.outcome = r.outcome, !.parser = r.parser]
    /\ UNCHANGED <<parsers, fcb_vars, ext_vars>>

\* ParserFactory.get_supported_languages()
GetSupportedLanguages ==
    /\ call.op = "none"
    /\ call' = [NoCall EXCEPT !.op = "get_supported_languages", !.outcome = "returned",
                              !.list = SupportedLanguagesResult(parsers)]
    /\ UNCHANGED <<parsers, fcb_vars, ext_vars>>

\* what a change of a list does to the table: nothing, unless the list is shared
TableAfterListChange(table, list) ==
    IF list.shared
    THEN SelectSeq(table, LAMBDA e : \E i \in 1..Len(list.items) : list.items[i] = e.key)
    ELSE table

\* the caller appends to the list it was given, or removes its last element
CallerChangesList ==
    /\ call.op = "get_supported_languages"
    /\ \E items \in {Append(call.list.items, t) : t \in {"rust"}}
                        \cup {SubSeq(call.list.items, 1, Len(call.list.items) - 1)} :
        /\ Len(items) <= MaxListLen
        /\ items # call.list.items
        /\ call' = [call EXCEPT !.list.items = items]
        /\ parsers' = TableAfterListChange(parsers, call'.list)
    /\ UNCHANGED <<fcb_vars, ext_vars>>

\* test_generator.parse_code(code, language, file_path): test_generator.py 20-36
ParseCode ==
    /\ call.op = "none"
    /\ \E language \in LanguageTags : \E src \in Sources(language) :
        call' = CallOf("parse_code", language, src, GetAndCall(parsers, language, src, 2))
    /\ UNCHANGED <<parsers, fcb_vars, ext_vars>>

\* generate_test_direct up to its snippet list: endpoints.py 134-158; an
\* exception of the parsing leaves snippets = []
GenerateTestDirect ==
    /\ call.op = "none"
    /\ \E language \in LanguageTags : \E src \in Sources(language) :
        call' = CallOf("generate_test_direct", language, src,
                       IF ~Contains(SupportedLanguagesResult(parsers).items, language)
                       THEN Refused("error: Unsupported language")
                       ELSE IF PyIsEmpty(src.code)
                       THEN Refused("error: Empty code provided")
                       ELSE GetAndCall(parsers, language, src, 1))
    /\ UNCHANGED <<parsers, fcb_vars, ext_vars>>

\* generate_test_stream up to its snippet list: endpoints.py 267-315; file_path is
\* passed on to parse_code, and an exception leaves snippets = []
GenerateTestStream ==
    /\ call.op = "none"
    /\ \E language \in LanguageTags : \E src \in Sources(language) :
        call' = CallOf("generate_test_stream", language, src,
                       IF language \notin SupportedTags
                       THEN Refused("error: Unsupported language")
                       ELSE IF PyIsEmpty(src.code)
                       THEN Refused("error: Empty code provided")
                       ELSE GetAndCall(parsers, language, src, 2))
    /\ UNCHANGED <<parsers, fcb_vars, ext_vars>>

\* the call is over; the next one may start
Return ==
    /\ call.op # "none"
    /\ call' = NoCall
    /\ UNCHANGED <<parsers, fcb_vars, ext_vars>>

PfNext ==
    \/ GetParser
    \/ GetSupportedLanguages
    \/ CallerChangesList
    \/ ParseCode
    \/ GenerateTestDirect
    \/ GenerateTestStream
    \/ Return

----------------------------------------------------------------------------
(* Calls of BaseParser.extract_function_body (base_parser.py 50-85)        *)

\* the characters of the texts: the braces, a line break, any other character
SpanChars == {"{", "}", "\n", "v"}

SpanTexts == SeqsUpTo(SpanChars, MaxSpanLen)

NoSpanCall == [pc |-> "idle", code |-> <<>>, start_line |-> 0, end_line |-> 0, ret |-> <<>>]

\* extract_function_body(code, start_line) on a line of the text
ExtractCall ==
    /\ efb.pc = "idle"
    /\ \E code \in SpanTexts, start_line \in 0..MaxSpanLen :
            /\ start_line < Len(SplitLines(code))
            /\ efb' = [pc |-> "done", code |-> code, start_line |-> start_line,
                       end_line |-> ExtractEndLine(SplitLines(code), start_line),
                       ret |-> ExtractFunctionBody(code, start_line)]
    /\ UNCHANGED <<fcb_vars, pf_vars, go_vars, q_vars>>

\* the caller takes the text
ExtractReturn ==
    /\ efb.pc = "done"
    /\ efb' = NoSpanCall
    /\ UNCHANGED <<fcb_vars, pf_vars, go_vars, q_vars>>

EfbNext == ExtractCall \/ ExtractReturn

----------------------------------------------------------------------------
(* GoParser.parse_code (go_parser.py 20-75) iteration by iteration, called  *)
(* by several threads on the one GoParser instance of the dispatch table   *)

Threads == {1, 2}

\* the declarations of the texts the threads parse
GoCallDecls ==
    {Leaf("func", "f"), Decl("ptr", "g", <<Leaf("stmt", "")>>), Leaf("stmt", "")}

GoCallTexts == {GoText(ds) : ds \in SeqsUpTo(GoCallDecls, MaxDecls)}

\* the frame of a call: its local variables; ranges lists (func_start, func_end)
\* of the snippets appended so far
NoFrame ==
    [pc |-> "idle", code |-> <<>>, lines |-> <<>>, i |-> 0, snippets |-> <<>>,
     ranges |-> <<>>, ret |-> <<>>]

\* a resumption on the line of the snippet's end
GoResume_SameLine(func_end) == func_end

\* lines 72-73: i = func_end, then i += 1
GoResume(func_end) == func_end + 1

\* an iteration that keeps its lines on the instance
GoSelfAfter_KeepsLines(self, frame) == <<[key |-> "lines", value |-> frame.lines]>>

\* lines 20-75 assign no attribute of self: the instance is as it was
GoSelfAfter(self, frame) == self

\* lines 26-73: one iteration of the while loop, for i < len(lines)
GoIteration(frame) ==
    IF GoIsFuncLine(frame.lines[frame.i + 1])
    THEN LET Extract(names, func_end) ==
                 [frame EXCEPT
                     !.snippets = Append(@, CodeSnippet(names[1], GoType(names[2]),
                                                        JoinLines(SubSeq(frame.lines, frame.i + 1,
                                                                         func_end + 1)),
                                                        "go", names[2])),
                     !.ranges = Append(@, <<frame.i, func_end>>),
                     !.i = GoResume(func_end)]
         IN  Extract(GoNames(frame.lines[frame.i + 1]),
                     GoFuncEnd(frame.lines, frame.i, 0, frame.i))
    ELSE [frame EXCEPT !.i = @ + 1]

\* ParserFactory.get_parser("go").parse_code(code), lines 21-23: the call starts
GoCall(t) ==
    /\ go_frames[t].pc = "idle"
    /\ DictHas(parsers, "go")
    /\ \E code \in GoCallTexts :
            go_frames' = [go_frames EXCEPT ![t] =
                             [NoFrame EXCEPT !.pc = "loop", !.code = code,
                                             !.lines = SplitLines(code)]]
    /\ UNCHANGED <<go_self, fcb_vars, pf_vars, efb_vars, q_vars>>

\* lines 25-73: the loop test held, one iteration runs
GoIterate(t) ==
    /\ go_frames[t].pc = "loop"
    /\ go_frames[t].i < Len(go_frames[t].lines)
    /\ go_frames' = [go_frames EXCEPT ![t] = GoIteration(go_frames[t])]
    /\ go_self' = GoSelfAfter(go_self, go_frames[t])
    /\ UNCHANGED <<fcb_vars, pf_vars, efb_vars, q_vars>>

\* lines 25, 75: the loop test failed, return snippets
GoReturn(t) ==
    /\ go_frames[t].pc = "loop"
    /\ go_frames[t].i >= Len(go_frames[t].lines)
    /\ go_frames' = [go_frames EXCEPT ![t].pc = "done", ![t].ret = go_frames[t].snippets]
    /\ UNCHANGED <<go_self, fcb_vars, pf_vars, efb_vars, q_vars>>

\* the caller has the list; the thread is free for another call
GoTake(t) ==
    /\ go_frames[t].pc = "done"
    /\ go_frames' = [go_frames EXCEPT ![t] = NoFrame]
    /\ UNCHANGED <<go_self, fcb_vars, pf_vars, efb_vars, q_vars>>

GoNext == \E t \in Threads : GoCall(t) \/ GoIterate(t) \/ GoReturn(t) \/ GoTake(t)

----------------------------------------------------------------------------
(* SimpleTaskQueue (simple_queue.py): one queue, execute_task coroutines on *)
(* one event loop.  A coroutine runs without interruption from one await   *)
(* that suspends it to the next; acquiring a free semaphore or the free    *)
(* lock does not suspend, and no block under self.lock holds an await, so  *)
(* each locked block runs within the step that reaches it.  A call stands: *)
(*   "not called"                                                          *)
(*   "waiting"     at line 28, suspended on the semaphore                  *)
(*   "task"        at line 41, in await task_func(...)                     *)
(*   "sleep"       at line 63, in await asyncio.sleep(1) of the finally    *)
(*   "finished"    returned, raised or cancelled                           *)

\* line 17: the default of max_concurrent, which get_simple_queue passes too
max_concurrent == 3

Calls == 1..NumCalls

\* a semaphore that lets every caller in
SemaphoreFree_Always(value) == TRUE

\* asyncio.Semaphore: acquire() goes on without waiting when the value is positive
SemaphoreFree(value) == value > 0

\* lines 29-35: self.running_tasks[task_id] = {..., "status": "running"}
TaskAdded(running, task_id) == Append(running, [id |-> task_id, status |-> "running"])

\* lines 44-47, 53-57: if task_id in self.running_tasks: set its status
TaskStatusSet(running, task_id, status) ==
    [k \in 1..Len(running) |->
        IF running[k].id = task_id THEN [running[k] EXCEPT !.status = status] ELSE running[k]]

\* lines 65-66: if task_id in self.running_tasks: del self.running_tasks[task_id]
TaskDeleted(running, task_id) == SelectSeq(running, LAMBDA e : e.id # task_id)

\* get_status(), lines 68-75
GetStatus ==
    [running_tasks |-> Len(q_running), max_concurrent |-> max_concurrent,
     available_slots |-> max_concurrent - Len(q_running)]

\* lines 25-41 with a free slot: the semaphore is taken, the entry is made and
\* task_func is awaited
ExecuteTask(c) ==
    /\ q_calls[c] = "not called"
    /\ SemaphoreFree(q_sem)
    /\ q_sem' = q_sem - 1
    /\ q_running' = TaskAdded(q_running, c)
    /\ q_calls' = [q_calls EXCEPT ![c] = "task"]
    /\ UNCHANGED <<fcb_vars, pf_vars, efb_vars, go_vars>>

\* lines 25-28 without a free slot: the call is suspended on the semaphore
ExecuteTaskWaits(c) ==
    /\ q_calls[c] = "not called"
    /\ ~SemaphoreFree(q_sem)
    /\ q_calls' = [q_calls EXCEPT ![c] = "waiting"]
    /\ UNCHANGED <<q_running, q_sem, fcb_vars, pf_vars, efb_vars, go_vars>>

\* lines 28-41: a slot was released to the suspended call
SlotGranted(c) ==
    /\ q_calls[c] = "waiting"
    /\ SemaphoreFree(q_sem)
    /\ q_sem' = q_sem - 1
    /\ q_running' = TaskAdded(q_running, c)
    /\ q_calls' = [q_calls EXCEPT ![c] = "task"]
    /\ UNCHANGED <<fcb_vars, pf_vars, efb_vars, go_vars>>

\* lines 41-49, 61-63: task_func returned; the status is set and the finally
\* clause sleeps
TaskReturns(c) ==
    /\ q_calls[c] = "task"
    /\ q_running' = TaskStatusSet(q_running, c, "completed")
    /\ q_calls' = [q_calls EXCEPT ![c] = "sleep"]
    /\ UNCHANGED <<q_sem, fcb_vars, pf_vars, efb_vars, go_vars>>

\* lines 41, 51-63: task_func raised an Exception
TaskRaises(c) ==
    /\ q_calls[c] = "task"
    /\ q_running' = TaskStatusSet(q_running, c, "failed")
    /\ q_calls' = [q_calls EXCEPT ![c] = "sleep"]
    /\ UNCHANGED <<q_sem, fcb_vars, pf_vars, efb_vars, go_vars>>

\* lines 63-66 and the exit of line 28: the sleep is over, the entry is deleted
\* and the slot released
CleanUp(c) ==
    /\ q_calls[c] = "sleep"
    /\ q_running' = TaskDeleted(q_running, c)
    /\ q_sem' = q_sem + 1
    /\ q_calls' = [q_calls EXCEPT ![c] = "finished"]
    /\ UNCHANGED <<fcb_vars, pf_vars, efb_vars, go_vars>>

\* the call is cancelled while it waits for a slot: CancelledError leaves
\* line 28 with nothing acquired
CancelWaiting(c) ==
    /\ q_calls[c] = "waiting"
    /\ q_calls' = [q_calls EXCEPT ![c] = "finished"]
    /\ UNCHANGED <<q_running, q_sem, fcb_vars, pf_vars, efb_vars, go_vars>>

\* the call is cancelled in task_func: CancelledError is no Exception, so line
\* 51 does not catch it and the finally clause runs with the status unchanged
CancelTask(c) ==
    /\ q_calls[c] = "task"
    /\ q_calls' = [q_calls EXCEPT ![c] = "sleep"]
    /\ UNCHANGED <<q_running, q_sem, fcb_vars, pf_vars, efb_vars, go_vars>>

\* the call is cancelled in the sleep of line 63: CancelledError leaves the
\* finally clause before lines 64-66, and the exit of line 28 releases the slot
CancelSleep(c) ==
    /\ q_calls[c] = "sleep"
    /\ q_sem' = q_sem + 1
    /\ q_calls' = [q_calls EXCEPT ![c] = "finished"]
    /\ UNCHANGED <<q_running, fcb_vars, pf_vars, efb_vars, go_vars>>

\* the calls when every task returns or raises and no call is cancelled
QueueNext ==
    \E c \in Calls :
        \/ ExecuteTask(c) \/ ExecuteTaskWaits(c) \/ SlotGranted(c)
        \/ TaskReturns(c) \/ TaskRaises(c) \/ CleanUp(c)

\* the calls with cancellation
QueueCancelNext ==
    \/ QueueNext
    \/ \E c \in Calls : CancelWaiting(c) \/ CancelTask(c) \/ CancelSleep(c)

----------------------------------------------------------------------------
(* Specifications *)

\* no call of find_closing_brace has started; the dispatch table is as the class
\* body of ParserFactory builds it, and no call is in progress
Init ==
    /\ fcb_pc = "idle"
    /\ fcb_code = <<>>
    /\ fcb_start = 0
    /\ fcb_i = 0
    /\ fcb_count = 0
    /\ fcb_found = FALSE
    /\ fcb_ret = -1
    /\ fcb_steps = 0
    /\ parsers = InitialParsers
    /\ call = NoCall
    /\ efb = NoSpanCall
    /\ go_frames = [t \in Threads |-> NoFrame]
    /\ go_self = <<>>
    /\ q_calls = [c \in Calls |-> "not called"]
    /\ q_running = <<>>
    /\ q_sem = max_concurrent

\* one call of find_closing_brace on every bounded text and start offset
SpecBrace == Init /\ [][FcbNext]_vars

\* calls of the factory, of the parsers through it, and of their callers
Spec == Init /\ [][PfNext]_vars

\* calls of extract_function_body on every bounded text and line
SpecSpan == Init /\ [][EfbNext]_vars

\* concurrent calls of GoParser.parse_code
SpecGo == Init /\ [][GoNext]_vars

\* execute_task calls whose tasks return or raise
SpecQueue == Init /\ [][QueueNext]_vars

\* execute_task calls whose tasks return or raise or that are cancelled
SpecQueueCancel == Init /\ [][QueueCancelNext]_vars

----------------------------------------------------------------------------
(* Claims about find_closing_brace *)

\* C1: on every text and every start_pos in 0..len(code) the scan examines at
\* most len(code) - start_pos characters, its index never leaves the text, and
\* the offset it returns is either len(code) or lies in start_pos+1..len(code);
\* it is never negative or beyond the text, balanced braces or not.
C1_TerminatesInRange ==
    /\ fcb_steps <= Len(fcb_code) - fcb_start
    /\ fcb_start <= fcb_i /\ fcb_i <= Len(fcb_code)
    /\ fcb_pc = "loop" => fcb_steps = fcb_i - fcb_start
    /\ fcb_pc = "done" =>
          \/ fcb_ret = Len(fcb_code)
          \/ fcb_start < fcb_ret /\ fcb_ret <= Len(fcb_code)

\* C1 witness: a scan over unbalanced braces that ran to the end of the text
C1_Witness ==
    /\ fcb_pc = "done"
    /\ Len(fcb_code) >= 3
    /\ fcb_found /\ fcb_count > 0
    /\ fcb_steps = Len(fcb_code) - fcb_start
    /\ fcb_ret = Len(fcb_code)

RECURSIVE ScanIgnoringPrefix(_, _, _, _)
\* the scan as the specification words it: nothing counts before the first "{"
ScanIgnoringPrefix(code, i, count, found) ==
    IF i >= Len(code) THEN Len(code)
    ELSE LET ch == code[i + 1]
         IN  IF ~found
             THEN IF ch = "{" THEN ScanIgnoringPrefix(code, i + 1, 1, TRUE)
                  ELSE ScanIgnoringPrefix(code, i + 1, 0, FALSE)
             ELSE LET c == BraceCountAfter(ch, count)
                  IN  IF c = 0 THEN i + 1
                      ELSE ScanIgnoringPrefix(code, i + 1, c, TRUE)

\* C2: the returned offset is one past the "}" that closes the first "{" at or
\* after start_pos, every character before that "{" (a "}" included) being
\* ignored, and len(code) when there is no such "}".
C2_IgnoresPrefix ==
    fcb_pc = "done" => fcb_ret = ScanIgnoringPrefix(fcb_code, fcb_start, 0, FALSE)

\* C2 witness: a finished scan whose text has a "}" before its first "{"
C2_Witness ==
    /\ fcb_pc = "done"
    /\ fcb_found
    /\ \E k \in (fcb_start + 1)..Len(fcb_code) :
          /\ fcb_code[k] = "}"
          /\ \A j \in (fcb_start + 1)..k : fcb_code[j] # "{"

----------------------------------------------------------------------------
(* Claims about the dispatch (ParserFactory and its callers) *)

\* C3: get_parser, called on its own or by test_generator.parse_code, raises the
\* unsupported-language error (ValueError) for every tag outside python, java,
\* go, cpp, csharp, and then no parser's parse_code has been invoked; for a tag
\* of the set it returns the one parser the table maps the tag to, and no other
\* parser is invoked.
C3_UnsupportedRejectedFirst ==
    call.op \in {"get_parser", "parse_code"} =>
        IF call.language \notin {"python", "java", "go", "cpp", "csharp"}
        THEN call.outcome = "ValueError" /\ call.parser = None /\ call.invoked = <<>>
        ELSE /\ call.outcome # "ValueError"
             /\ call.parser = CASE call.language = "python" -> "PythonParser"
                                [] call.language = "java" -> "JavaParser"
                                [] call.language = "go" -> "GoParser"
                                [] call.language = "cpp" -> "CppParser"
                                [] call.language = "csharp" -> "CSharpParser"
             /\ call.op = "get_parser" => call.outcome = "returned"
             /\ call.invoked \in {<<>>, <<call.parser>>}

\* C3 witness: test_generator.parse_code was called with a tag that differs
\* from a supported one by its case only, and raised
C3_Witness ==
    /\ call.op = "parse_code"
    /\ call.language = "Python"
    /\ call.outcome = "ValueError"

\* C4: for each supported tag, test_generator.parse_code and the parser call of
\* the streaming endpoint complete without an exception and give the snippet
\* list the selected parser produces for the text.
C4_ReturnsParserSnippets ==
    (/\ call.op \in {"parse_code", "generate_test_stream"}
     /\ call.language \in SupportedTags
     /\ call.outcome # "error: Empty code provided")
        => /\ call.outcome = "returned"
           /\ call.invoked = <<call.parser>>
           /\ call.snippets = RunParser(call.parser, call.src)

\* C5: whatever calls were made, the caller's changes of a returned list
\* included, the dispatch table has the keys python, java, go, cpp, csharp, each
\* with its parser of start-up, and get_supported_languages gives those five tags.
C5_TableNeverChanges ==
    /\ parsers = <<[key |-> "python", value |-> "PythonParser"],
                   [key |-> "java", value |-> "JavaParser"],
                   [key |-> "go", value |-> "GoParser"],
                   [key |-> "cpp", value |-> "CppParser"],
                   [key |-> "csharp", value |-> "CSharpParser"]>>
    /\ SupportedLanguagesResult(parsers).items = <<"python", "java", "go", "cpp", "csharp">>

\* C5 witness: a caller has removed tags from the list it was given
C5_Witness ==
    /\ call.op = "get_supported_languages"
    /\ Len(call.list.items) < 5

----------------------------------------------------------------------------
(* Claims about the snippets the parsers emit *)

\* the snippets of a parser call that ran to its return
Emitted == IF call.invoked # <<>> THEN call.snippets ELSE <<>>

\* C6: every snippet a parser emits is a function without class_name or a
\* method with one: class_name is set if and only if type is "method".
C6_ClassNameIffMethod ==
    \A k \in 1..Len(Emitted) :
        /\ Emitted[k].type \in {"function", "method"}
        /\ Emitted[k].type = "method" <=> Emitted[k].class_name # None

\* C6 witness: the Python regex fallback, run on a text ast.parse rejects,
\* emitted a def that stands inside a class
C6_Witness ==
    /\ call.language = "python"
    /\ HasKind(call.src.decls, "bad")
    /\ HasKind(call.src.decls, "class")
    /\ Emitted # <<>>

\* C7: no emitted snippet has a name equal to its own class_name.
C7_NoConstructorSnippet ==
    \A k \in 1..Len(Emitted) : Emitted[k].name # Emitted[k].class_name

\* C8: no two snippets of one parse_code call share (name, type, class_name).
C8_UniqueTriples ==
    \A j, k \in 1..Len(Emitted) :
        (/\ Emitted[j].name = Emitted[k].name
         /\ Emitted[j].type = Emitted[k].type
         /\ Emitted[j].class_name = Emitted[k].class_name) => j = k

\* the function snippets the C++ or C# function loop emits for the signature
\* match m alone, among the class matches of the text
FunctionOf(language, code, m) ==
    IF language = "cpp"
    THEN LET Ranges(r) == IF r.raised THEN <<>> ELSE CppFunctions(code, r.value, <<m>>).value
         IN  Ranges(CppClassRanges(code, FindIter("cpp_class", code)))
    ELSE CsFunctions(code, FindIter("cs_class", code), <<m>>)

\* the signature match m starts inside a class span of the text: at or after the
\* start of a class header and before the end of its brace-matched closing "}"
InClassSpan(language, code, m) ==
    LET classes == FindIter(IF language = "cpp" THEN "cpp_class" ELSE "cs_class", code)
    IN  \E k \in 1..Len(classes) :
            /\ classes[k].start <= m.start
            /\ m.start < FindClosingBrace(code, classes[k].start)

\* C9: in C++ and C# extraction no function snippet is emitted for a signature
\* match that starts inside a detected class span.
C9_NoFunctionInsideClass ==
    (call.language \in {"cpp", "csharp"} /\ call.invoked # <<>>) =>
        LET code == call.src.code
            matches == FindIter(IF call.language = "cpp" THEN "cpp_func" ELSE "cs_func", code)
        IN  \A i \in 1..Len(matches) :
                InClassSpan(call.language, code, matches[i]) =>
                    \A k \in 1..Len(Emitted) :
                        Emitted[k].type = "function" =>
                            <<Emitted[k]>> # FunctionOf(call.language, code, matches[i])

\* C10: C++ extraction of a class A with the one method m, followed by the free
\* function g, gives exactly the method m of class A and the function g.
C10_CppMethodAndFunction ==
    (/\ call.language = "cpp"
     /\ call.invoked # <<>>
     /\ call.src.decls = <<Decl("class", "A", <<Leaf("method", "m")>>), Leaf("method", "g")>>)
        => /\ Len(call.snippets) = 2
           /\ \E j, k \in 1..2 :
                /\ call.snippets[j].name = "m" /\ call.snippets[j].type = "method"
                /\ call.snippets[j].class_name = "A"
                /\ call.snippets[k].name = "g" /\ call.snippets[k].type = "function"
                /\ call.snippets[k].class_name = None

----------------------------------------------------------------------------
(* Claims about malformed sources *)

\* C11: when a Go text holds a function whose braces never balance, every
\* well-formed function or method that is declared on one line of the same
\* text, before or after it, is still emitted as a snippet of its own: one
\* with its name and exactly its line as code.
C11_SiblingsSurviveMalformed ==
    (/\ call.language = "go"
     /\ call.invoked # <<>>
     /\ HasKind(call.src.decls, "open"))
        => \A k \in 1..Len(call.src.decls) :
               (call.src.decls[k].kind \in {"func", "ptr"} /\ call.src.decls[k].body = <<>>)
                   => \E j \in 1..Len(Emitted) :
                          /\ Emitted[j].name = call.src.decls[k].name
                          /\ Emitted[j].code = GoText(<<call.src.decls[k]>>)

\* C12: when ast.parse rejects a Python text, every top-level
\* "def NAME():" header of it that is followed by one indented body line gets
\* a snippet named NAME whose code is exactly those two lines.
C12_FallbackSpansHeaderAndBody ==
    (/\ call.language = "python"
     /\ call.invoked # <<>>
     /\ PyRaisesSyntaxError(call.src.decls))
        => \A k \in 1..Len(call.src.decls) :
               call.src.decls[k] \in {PyDef("f"), PyDef("g")}
                   => \E j \in 1..Len(Emitted) :
                          /\ Emitted[j].name = call.src.decls[k].name
                          /\ Emitted[j].code = PyText(<<call.src.decls[k]>>)

RECURSIVE FirstCodeLine(_, _)
\* the 0-based index of the first line at or after index n that is neither
\* blank nor a comment; Len(lines) when there is none
FirstCodeLine(lines, n) ==
    IF n >= Len(lines) THEN Len(lines)
    ELSE IF PyBlankOrComment(lines[n + 1]) THEN FirstCodeLine(lines, n + 1)
    ELSE n

RECURSIVE FirstLineAtOrBelow(_, _, _)
\* the 0-based index of the first line at or after index n that is neither
\* blank nor a comment and is indented at most ref; Len(lines) when there is none
FirstLineAtOrBelow(lines, n, ref) ==
    IF n >= Len(lines) THEN Len(lines)
    ELSE IF ~PyBlankOrComment(lines[n + 1]) /\ LeadingSpaces(lines[n + 1]) <= ref THEN n
    ELSE FirstLineAtOrBelow(lines, n + 1, ref)

\* the def match at 0-based line header of the text, whose snippet is code,
\* follows the scan of the fallback as described: the reference indentation
\* is that of the first line after the header that is neither blank nor a
\* comment, and the snippet ends before the first later line that is indented
\* at or below the reference
ScansFromReference(lines, header, code) ==
    LET Checked(r) ==
            r < Len(lines) =>
                /\ PyIndent(lines, header + 1) = LeadingSpaces(lines[r + 1])
                /\ header + Len(SplitLines(code))
                       <= FirstLineAtOrBelow(lines, r + 1, LeadingSpaces(lines[r + 1]))
    IN  Checked(FirstCodeLine(lines, header + 1))

\* C13: in every run of the Python indentation fallback, each def's reference
\* indentation is taken from the first line after the header that is neither
\* blank nor a comment, and its snippet holds no line from the first later
\* line indented at or below that reference onwards.
C13_ReferenceIndentation ==
    (/\ call.language = "python"
     /\ call.invoked # <<>>
     /\ call.snippets = PyParseWithRegex(call.src.code))
        => LET Each(lines, matches) ==
                   \A j \in 1..Len(matches) :
                       ScansFromReference(lines, CountNewlines(call.src.code, matches[j].start),
                                          call.snippets[j].code)
           IN  Each(SplitLines(call.src.code), PyFindDefs(call.src.code, 0))

NoDeclarationSources(language) ==
    IF language = "python"
    THEN {Source(<<Leaf("pass", "")>>, PyText(<<Leaf("pass", "")>>))}
    ELSE {Source(<<Leaf("class", "A")>>, JavaText(<<Leaf("class", "A")>>))}

\* C15: a Java or Python parse_code call on a text that does not parse never
\* ends with the same outcome (how it ended and what it returned) as the call
\* on a text that parses and declares no function or method.
C15_ParseFailureDistinct ==
    (/\ call.language \in {"java", "python"}
     /\ call.invoked # <<>>
     /\ HasKind(call.src.decls, "bad"))
        => \A src \in NoDeclarationSources(call.language) :
               <<call.outcome, call.snippets>> # <<"returned", RunParser(call.parser, src)>>

----------------------------------------------------------------------------
(* Claims about the code and the order of the snippets *)

\* code is the join of the lines a+1..b (1-based) of lines, for some a <= b
\* (the empty code is the empty range)
IsRangeOfLines(code, lines) ==
    \E a \in 0..Len(lines) : \E b \in a..Len(lines) :
        code = JoinLines(Slice(lines, a, b))

\* C16: the code of every emitted snippet is the join of a contiguous range of
\* whole lines of the source text, no character of those lines left out.
C16_CodeIsWholeLines ==
    \A k \in 1..Len(Emitted) :
        IsRangeOfLines(Emitted[k].code, SplitLines(call.src.code))

\* the least offset p >= from at which pat stands in text, -1 when there is none
FindFrom(pat, text, from) ==
    LET at == {p \in from..(Len(text) - Len(pat)) : SubSeq(text, p + 1, p + Len(pat)) = pat}
    IN  IF at = {} THEN -1 ELSE CHOOSE p \in at : \A q \in at : p <= q

RECURSIVE InSourceOrder(_, _, _)
\* the codes of the snippets stand in the text one after (or at) the other,
\* from offset from on: the list follows source position
InSourceOrder(snippets, text, from) ==
    IF snippets = <<>> THEN TRUE
    ELSE LET Next1(p) == p # -1 /\ InSourceOrder(Tail(snippets), text, p)
         IN  Next1(FindFrom(Head(snippets).code, text, from))

\* C17: the list a parser returns follows source position for Go, C++ and C#;
\* for Python it is the functions in source order, then the methods in
\* source order.
C17_SourceOrder ==
    call.invoked # <<>> =>
        CASE call.language \in {"go", "cpp", "csharp"} ->
                 InSourceOrder(call.snippets, call.src.code, 0)
          [] call.language = "python" ->
                 \E i \in 0..Len(call.snippets) :
                     /\ \A k \in 1..Len(call.snippets) :
                            call.snippets[k].type = (IF k <= i THEN "function" ELSE "method")
                     /\ InSourceOrder(SubSeq(call.snippets, 1, i), call.src.code, 0)
                     /\ InSourceOrder(SubSeq(call.snippets, i + 1, Len(call.snippets)),
                                      call.src.code, 0)
          [] OTHER -> TRUE

\* the snippet s stands for a top-level function of the declarations ds, or
\* for a direct method of a top-level class of ds
IsTopLevelOrDirectMethod(s, ds) ==
    \E i \in 1..Len(ds) :
        \/ /\ ds[i].kind = "def"
           /\ s.name = ds[i].name /\ s.type = "function" /\ s.class_name = None
        \/ /\ ds[i].kind = "class"
           /\ s.type = "method" /\ s.class_name = ds[i].name
           /\ \E j \in 1..Len(ds[i].body) :
                  ds[i].body[j].kind \in {"def", "method"} /\ s.name = ds[i].body[j].name

\* the snippet s has the name of a method of a class that is nested in a
\* top-level class of the declarations ds
IsNestedMethod(s, ds) ==
    \E i \in 1..Len(ds) : \E j \in 1..Len(ds[i].body) :
        /\ ds[i].kind = "class" /\ ds[i].body[j].kind = "class"
        /\ \E m \in 1..Len(ds[i].body[j].body) :
               /\ ds[i].body[j].body[m].kind \in {"def", "method"}
               /\ s.name = ds[i].body[j].body[m].name

\* C18: for a Python or Java text that parses, no snippet is emitted for a
\* method of a class nested inside another class: a snippet that bears the
\* name of such a method is a top-level function or a direct method of a
\* top-level class.
C18_TwoLevelsOnly ==
    (/\ call.language \in {"python", "java"}
     /\ call.invoked # <<>>
     /\ ~HasKind(call.src.decls, "bad"))
        => \A k \in 1..Len(call.snippets) :
               IsNestedMethod(call.snippets[k], call.src.decls)
                   => IsTopLevelOrDirectMethod(call.snippets[k], call.src.decls)

----------------------------------------------------------------------------
(* Claims about the names GoParser captures *)

\* the snippet s is what the header of the Go declaration d stands for: a
\* method of the receiver's type A for "(s *A) " and "(s A) ", a function
\* without class_name for a header without receiver clause
IsSnippetOfHeader(s, d) ==
    /\ s.name = d.name
    /\ s.language = "go"
    /\ IF d.kind \in {"ptr", "val"}
       THEN s.type = "method" /\ s.class_name = "A"
       ELSE s.type = "function" /\ s.class_name = None

\* C19: in a Go text whose braces all balance, for every header line that
\* carries the receiver clause "(s *A)" or "(s A)", blank between clause and
\* name, GoParser emits a snippet whose code starts with that line and that
\* is a method of class A named by the function identifier, and for every
\* header line without receiver clause one that is a function without
\* class_name; the text that is the one line "func (s *A) f() { }" gives
\* exactly one snippet: f, method of A, with that line as code.
C19_ReceiverGivesMethod ==
    (call.language = "go" /\ call.invoked # <<>> /\ ~HasKind(call.src.decls, "open")) =>
        /\ \A i \in 1..Len(call.src.decls) :
               call.src.decls[i].kind \in {"ptr", "val", "func"}
                   => \E k \in 1..Len(call.snippets) :
                          /\ SplitLines(call.snippets[k].code)[1]
                                 = GoRender(<<call.src.decls[i]>>)[1]
                          /\ IsSnippetOfHeader(call.snippets[k], call.src.decls[i])
        /\ call.src.decls = <<Leaf("ptr", "f")>>
               => call.snippets = <<CodeSnippet("f", "method", call.src.code, "go", "A")>>

\* C20: every emitted snippet has a non-empty name.
C20_NonEmptyName ==
    \A k \in 1..Len(Emitted) : Emitted[k].name # ""

----------------------------------------------------------------------------
(* Claims about the spans of Java, C# and Go snippets *)

RECURSIVE MethodNodes(_)
\* the method declarations of a Java tree, at any depth
MethodNodes(nodes) ==
    IF nodes = <<>> THEN <<>>
    ELSE (IF Head(nodes).kind \in {"method", "abstract"} THEN <<Head(nodes)>> ELSE <<>>)
             \o MethodNodes(Head(nodes).body) \o MethodNodes(Tail(nodes))

\* the snippet s spans the lines lineno..end_lineno of one method declaration
SpansOneMethod(s, code, methods) ==
    \E m \in 1..Len(methods) :
        /\ s.name = methods[m].name
        /\ s.code = JoinLines(Slice(SplitLines(code), methods[m].lineno - 1,
                                    methods[m].end_lineno))

\* C22: the code of every Java method snippet is the lines of that method's
\* declaration, from its start line through its end line, and holds no line
\* of a following member; also for a method without body and for the last
\* method of a class.
C22_JavaSpanIsTheMethod ==
    (/\ call.language = "java"
     /\ call.invoked # <<>>
     /\ ~JavaRaisesSyntaxError(call.src.decls))
        => \A k \in 1..Len(call.snippets) :
               SpansOneMethod(call.snippets[k], call.src.code,
                              MethodNodes(JavaTreeParse(call.src.decls)))

\* C23: when a C# text ends before the braces of a declaration balance, the
\* declaration's span runs to the end of the text: the snippet emitted for it
\* has the text from the declaration's start to the end of the text as code,
\* and no snippet of the call has empty code.
C23_BestEffortClose ==
    (/\ call.language = "csharp"
     /\ call.invoked # <<>>
     /\ Len(call.src.decls) >= 1
     /\ call.src.decls[Len(call.src.decls)].kind = "open")
        => /\ \A k \in 1..Len(call.snippets) : call.snippets[k].code # <<>>
           /\ \E k \in 1..Len(call.snippets) :
                  call.snippets[k].code = CsText(<<call.src.decls[Len(call.src.decls)]>>)

\* C24: in a Go text whose braces all balance, the code of every snippet is
\* the lines of one function declaration, from its header line through the
\* line with the "}" that closes its body.
C24_GoSpanEndsAtClosingBrace ==
    (/\ call.language = "go"
     /\ call.invoked # <<>>
     /\ ~HasKind(call.src.decls, "open"))
        => \A k \in 1..Len(call.snippets) :
               \E i \in 1..Len(call.src.decls) :
                   /\ call.src.decls[i].kind # "stmt"
                   /\ call.snippets[k].code = GoText(<<call.src.decls[i]>>)

\* C25: for a Python text that ast.parse accepts, parse_code returns the
\* snippets taken from the syntax tree and nothing else: the top-level
\* functions, then the methods of the top-level classes; when the tree has
\* neither, the result is the empty list.
C25_FallbackOnlyOnFailure ==
    (/\ call.language = "python"
     /\ call.invoked # <<>>
     /\ ~PyIsEmpty(call.src.code)
     /\ ~PyRaisesSyntaxError(call.src.decls))
        => call.snippets = PyTopFunctions(call.src.code, PyAstParse(call.src.decls))
                               \o PyClassMethods(call.src.code, PyAstParse(call.src.decls))

----------------------------------------------------------------------------
(* Claims about duplicates in C++ and C# *)

RECURSIVE CountDeclared(_)
\* the number of method, constructor and function declarations of ds, at any depth
CountDeclared(ds) ==
    IF ds = <<>> THEN 0
    ELSE (IF Head(ds).kind \in {"method", "virtual", "ctor", "open"} THEN 1 ELSE 0)
             + CountDeclared(Head(ds).body) + CountDeclared(Tail(ds))

\* C27: in one C++ or C# call each declaration gives at most one snippet, so
\* the list has no more snippets than the text has declarations.
C27_OneSnippetPerDeclaration ==
    (call.language \in {"cpp", "csharp"} /\ call.invoked # <<>>)
        => Len(call.snippets) <= CountDeclared(call.src.decls)

----------------------------------------------------------------------------
(* Claims about concurrent and step-wise GoParser calls *)

\* C21: under every interleaving of GoParser.parse_code calls on the one
\* instance of the dispatch table, a call returns the list it returns when
\* run alone on its text, the list it has built so far is the start of that
\* list, and no call leaves an attribute on the instance for another to read.
C21_ReentrantExtraction ==
    /\ go_self = <<>>
    /\ \A t \in Threads :
           /\ go_frames[t].pc = "done" => go_frames[t].ret = GoParseCode(go_frames[t].code)
           /\ go_frames[t].pc = "loop" =>
                  go_frames[t].snippets
                      = SubSeq(GoParseCode(go_frames[t].code), 1, Len(go_frames[t].snippets))

\* C21 witness: one call has returned a snippet while another call, on a
\* different text, is in the middle of its loop with a snippet of its own
C21_Witness ==
    \E t, u \in Threads :
        /\ go_frames[t].pc = "done" /\ go_frames[t].ret # <<>>
        /\ go_frames[u].pc = "loop" /\ go_frames[u].snippets # <<>>
        /\ go_frames[u].i < Len(go_frames[u].lines)
        /\ go_frames[u].code # go_frames[t].code

\* the line ranges of the snippets of a frame lie in 0..len(lines)-1, each
\* one after the one before it
RangesIncrease(frame) ==
    \A k \in 1..Len(frame.ranges) :
        /\ 0 <= frame.ranges[k][1]
        /\ frame.ranges[k][1] <= frame.ranges[k][2]
        /\ frame.ranges[k][2] <= Len(frame.lines) - 1
        /\ k > 1 => frame.ranges[k - 1][2] < frame.ranges[k][1]

\* C26: GoParser.parse_code terminates: the line index i never passes
\* len(lines) and grows with every iteration, after a snippet to the line after
\* the snippet's last line; the line ranges of the snippets are disjoint,
\* increasing and within 0..len(lines)-1.
C26_GoIndexAdvances ==
    /\ [](\A t \in Threads :
              /\ go_frames[t].i <= Len(go_frames[t].lines)
              /\ RangesIncrease(go_frames[t]))
    /\ [][\A t \in Threads :
              (go_frames[t].pc = "loop" /\ go_frames'[t].pc = "loop"
                  /\ go_frames'[t] # go_frames[t])
                  => /\ go_frames'[t].i > go_frames[t].i
                     /\ Len(go_frames'[t].ranges) > Len(go_frames[t].ranges)
                            => go_frames'[t].i
                                   = go_frames'[t].ranges[Len(go_frames'[t].ranges)][2] + 1]_vars

\* C26 witness: a call has emitted two snippets and reached the end of its text
C26_Witness ==
    \E t \in Threads :
        /\ go_frames[t].pc = "loop"
        /\ Len(go_frames[t].ranges) = 2
        /\ go_frames[t].i = Len(go_frames[t].lines)

----------------------------------------------------------------------------
(* Claims about SimpleTaskQueue *)

\* C28: with tasks that return or raise, at most max_concurrent task functions
\* run at any moment, running_tasks never has more than max_concurrent
\* entries, and get_status reports available_slots in 0..max_concurrent with
\* running_tasks + available_slots = max_concurrent.
C28_AtMostNRunning ==
    /\ Cardinality({c \in Calls : q_calls[c] = "task"}) <= max_concurrent
    /\ Len(q_running) <= max_concurrent
    /\ GetStatus.available_slots \in 0..max_concurrent
    /\ GetStatus.running_tasks + GetStatus.available_slots = max_concurrent

\* C28 witness: max_concurrent task functions run and a further call waits
C28_Witness ==
    /\ Cardinality({c \in Calls : q_calls[c] = "task"}) = max_concurrent
    /\ \E c \in Calls : q_calls[c] = "waiting"
    /\ GetStatus.available_slots = 0

\* C29: an execute_task call that has finished, whether its task returned or
\* raised or the call was cancelled, has removed its entry from running_tasks
\* and released its slot: no entry of a finished call is left, an entry's
\* status is running, completed or failed, and once every call has finished
\* running_tasks is empty and all slots are free.
C29_EntryRemovedAndSlotReleased ==
    /\ \A k \in 1..Len(q_running) :
           /\ q_calls[q_running[k].id] # "finished"
           /\ q_running[k].status \in {"running", "completed", "failed"}
    /\ (\A c \in Calls : q_calls[c] = "finished")
           => q_running = <<>> /\ q_sem = max_concurrent

----------------------------------------------------------------------------
(* Claims about the two brace resolvers of BaseParser *)

\* the first line at or after start_line at whose end the braces counted from
\* start_line are at zero with a "{" among them; the last line when there is none
FirstBalancedLine(lines, start_line) ==
    LET Balanced(i) ==
            /\ BraceDelta(JoinLines(SubSeq(lines, start_line + 1, i + 1))) = 0
            /\ \E j \in start_line..i : Contains(lines[j + 1], "{")
        ends == {i \in start_line..(Len(lines) - 1) : Balanced(i)}
    IN  IF ends = {} THEN Len(lines) - 1
        ELSE CHOOSE i \in ends : \A j \in ends : i <= j

\* the offset at which the 0-based line n of the text starts
LineStart(code, n) ==
    CHOOSE p \in 0..Len(code) :
        /\ CountNewlines(code, p) = n
        /\ \A q \in 0..(p - 1) : CountNewlines(code, q) < n

\* C30: extract_function_body(code, start_line) returns the lines from
\* start_line through the first line at whose end the brace counter is zero
\* after a "{" was seen (the last line when there is none), and that end line
\* is the line that holds offset find_closing_brace(code, start of start_line) - 1.
C30_ResolversAgree ==
    efb.pc = "done" =>
        /\ efb.end_line = FirstBalancedLine(SplitLines(efb.code), efb.start_line)
        /\ efb.ret = JoinLines(Slice(SplitLines(efb.code), efb.start_line, efb.end_line + 1))
        /\ efb.end_line
               = CountNewlines(efb.code,
                               FindClosingBrace(efb.code, LineStart(efb.code, efb.start_line)) - 1)

====
